---- MODULE Spec2Model ----
(***************************************************************************)
(* Cerberus: the anti-forgery token service (server/security.ts), the      *)
(* route handlers (server/routes.ts) and the ownership-scoped store        *)
(* (server/storage.ts, server/seed.ts, shared/schema.ts).                  *)
(*                                                                         *)
(* Strings are sequences of symbols.  A symbol is either one character,    *)
(* [ch |-> "a"], or one hex digest, [hmac |-> <<secret, data>>], which     *)
(* stands for the 64 hexadecimal characters of HMAC-SHA256(secret, data).  *)
(* Two digests are equal exactly when secret and data are equal, which is  *)
(* the collision-freeness the token scheme relies on.                      *)
(***************************************************************************)
EXTENDS Integers, Sequences, FiniteSets, TLC

(***************************************************************************)
(* Bounds of the model                                                     *)
(***************************************************************************)
MaxHours == 1
MaxTokens == 4
MaxRequests == 2

(***************************************************************************)
(* Strings                                                                 *)
(***************************************************************************)
Ch(c) == [ch |-> c]

Str(cs) == [i \in 1..Len(cs) |-> Ch(cs[i])]

Colon == Ch(":")

DigitChars == <<"0", "1", "2", "3", "4", "5", "6", "7", "8", "9">>

IsDigit(sym) == \E d \in 1..10 : sym = Ch(DigitChars[d])

DigitVal(sym) == (CHOOSE d \in 1..10 : sym = Ch(DigitChars[d])) - 1

\* Number.prototype.toString() of a non-negative integer
RECURSIVE NumToString(_)
NumToString(n) ==
    IF n < 10 THEN <<Ch(DigitChars[n + 1])>>
    ELSE Append(NumToString(n \div 10), Ch(DigitChars[(n % 10) + 1]))

\* the longest prefix of s made of decimal digits
RECURSIVE DigitPrefix(_)
DigitPrefix(s) ==
    IF s = <<>> \/ ~IsDigit(Head(s)) THEN <<>>
    ELSE <<Head(s)>> \o DigitPrefix(Tail(s))

RECURSIVE DigitsValue(_, _)
DigitsValue(s, acc) ==
    IF s = <<>> THEN acc ELSE DigitsValue(Tail(s), acc * 10 + DigitVal(Head(s)))

\* parseInt(s, 10): an optional sign, then the leading digits; NaN without digits
ParseInt(s) ==
    LET neg  == s # <<>> /\ Head(s) = Ch("-")
        body == IF s # <<>> /\ (Head(s) = Ch("-") \/ Head(s) = Ch("+")) THEN Tail(s) ELSE s
        ds   == DigitPrefix(body)
    IN IF ds = <<>> THEN [isNaN |-> TRUE, value |-> 0]
       ELSE [isNaN |-> FALSE,
             value |-> IF neg THEN 0 - DigitsValue(ds, 0) ELSE DigitsValue(ds, 0)]

\* String.prototype.split(":")
RECURSIVE SplitColon(_, _)
SplitColon(s, cur) ==
    IF s = <<>> THEN <<cur>>
    ELSE IF Head(s) = Colon THEN <<cur>> \o SplitColon(Tail(s), <<>>)
    ELSE SplitColon(Tail(s), Append(cur, Head(s)))

HEX_DIGEST_LENGTH == 64

\* Buffer.from(s).length
RECURSIVE ByteLength(_)
ByteLength(s) ==
    IF s = <<>> THEN 0
    ELSE (IF "hmac" \in DOMAIN Head(s) THEN HEX_DIGEST_LENGTH ELSE 1) + ByteLength(Tail(s))

\* crypto.createHmac("sha256", secret).update(data).digest("hex")
HmacSha256Hex(secret, data) == <<[hmac |-> <<secret, data>>]>>

\* process.env.SESSION_SECRET || "default-secret"
SESSION_SECRET == "default-secret"

\* crypto.timingSafeEqual(Buffer.from(a), Buffer.from(b))
TimingSafeEqual(a, b) ==
    IF ByteLength(a) # ByteLength(b) THEN "throws"
    ELSE IF a = b THEN "true" ELSE "false"

(***************************************************************************)
(* Token service                                                           *)
(***************************************************************************)
TOKEN_MAX_AGE == 60 * 60 * 1000

\* a signed string that leaves the session out
CsrfData_noSession(sessionId, timestamp) == timestamp

\* `${sessionId}:${timestamp}`
CsrfData(sessionId, timestamp) == sessionId \o <<Colon>> \o timestamp

\* a signature under a key other than SESSION_SECRET
generateCsrfToken_otherKey(sessionId, dateNow) ==
    LET timestamp == NumToString(dateNow)
        signature == HmacSha256Hex("other-secret", CsrfData(sessionId, timestamp))
    IN timestamp \o <<Colon>> \o signature

generateCsrfToken(sessionId, dateNow) ==
    LET timestamp == NumToString(dateNow)
        signature == HmacSha256Hex(SESSION_SECRET, CsrfData(sessionId, timestamp))
    IN timestamp \o <<Colon>> \o signature

\* an age limit that already excludes the age of one hour itself
Expired_atLimit(tokenAge) == tokenAge >= TOKEN_MAX_AGE

\* tokenAge > 60 * 60 * 1000
Expired(tokenAge) == tokenAge > TOKEN_MAX_AGE

\* "true", "false", or "throws" when the call raises instead of returning
validateCsrfToken(token, sessionId, dateNow) ==
    IF token = <<>> THEN "false"
    ELSE LET parts == SplitColon(token, <<>>) IN
         IF Len(parts) # 2 THEN "false"
         ELSE LET timestamp == parts[1]
                  signature == parts[2]
                  parsed    == ParseInt(timestamp)
              IN IF parsed.isNaN \/ Expired(dateNow - parsed.value) THEN "false"
                 ELSE TimingSafeEqual(signature,
                          HmacSha256Hex(SESSION_SECRET, CsrfData(sessionId, timestamp)))

(***************************************************************************)
(* State                                                                   *)
(***************************************************************************)
VARIABLES
    now,                \* Date.now(), in milliseconds
    issued,             \* tokens handed out so far (held by clients, not by the server)
    check,              \* the direct call of validateCsrfToken under way and its outcome,
                        \* and the calls seen to return true so far
    uniqueUserId,       \* whether user_subscriptions.user_id carries a unique constraint
    userSubscriptions,  \* table user_subscriptions
    threatLogs,         \* table threat_logs
    protectionStatus,   \* table protection_status
    nextId,             \* next value of gen_random_uuid()
    inflight,           \* requests whose handler is suspended at an await
    lastDone,           \* the request the last step answered, with its response
    started,            \* number of requests received
    arrival,            \* the last request the application-level middleware saw
    csrfToken,          \* client: the cached token, or null
    csrfTokenPromise,   \* client: the fetch the next getCsrfToken will wait for, or null
    fetches,            \* client: the requests to /api/csrf-token that are under way
    fetchCount,         \* client: number of requests to /api/csrf-token started so far
    stale,              \* client: the cached token came from a fetch started before
                        \* the last clearCsrfToken
    sent,               \* client: the last request apiRequest sent
    securityLog,        \* the array securityLog of the security module
    logged,             \* number of logSecurityEvent calls so far
    copy                \* the array a caller of getSecurityLog holds

storeVars == <<userSubscriptions, threatLogs, protectionStatus, nextId>>
apiVars == <<uniqueUserId, userSubscriptions, threatLogs, protectionStatus, nextId,
             inflight, lastDone, started>>
\* what the token service and the routes leave alone
clientVars == <<csrfToken, csrfTokenPromise, fetches, fetchCount, stale, sent>>
logVars == <<securityLog, logged, copy>>
sideVars == <<arrival, clientVars, logVars>>
vars == <<now, issued, check, uniqueUserId, userSubscriptions, threatLogs, protectionStatus,
          nextId, inflight, lastDone, started, sideVars>>

StartTime == 5000000

\* the instants at which the clock is observed
Instants == {StartTime + h * TOKEN_MAX_AGE + e : h \in 0..MaxHours, e \in 0..1}

\* session identifiers: the sessionID of u1's browser session, the user id "u2" (used
\* when a request has no sessionID), and one that contains the separator itself
SessionIds == {Str(<<"s", "A">>), Str(<<"u", "2">>), Str(<<"s", "A", ":", "5">>)}

IssuedAt(sessionId, at) ==
    [token |-> generateCsrfToken(sessionId, at), sessionId |-> sessionId, issuedAt |-> at]

\* tokens clients still hold when the process starts: they were issued by an earlier
\* process with the same SESSION_SECRET, one of them more than an hour ago
PriorTokens ==
    {IssuedAt(Str(<<"s", "A">>), StartTime - TOKEN_MAX_AGE - 1),
     IssuedAt(Str(<<"s", "A">>), StartTime - 1),
     IssuedAt(Str(<<"u", "2">>), StartTime - 1)}

NoCheck ==
    [called |-> FALSE, token |-> <<>>, sessionId |-> <<>>, at |-> 0, result |-> "none",
     accepted |-> {}]

NULL == -1

NoEndpoint == [method |-> "", path |-> ""]
NoParam == [given |-> FALSE, uuid |-> FALSE, id |-> 0]
NoBody == [empty |-> TRUE]
NoLocal == [none |-> TRUE]

\* a request: what it carries, where its handler stands, and what it has done so far
NoRequest ==
    [rid |-> 0, ep |-> NoEndpoint, user |-> "", sessionID |-> <<>>, header |-> <<>>,
     param |-> NoParam, body |-> NoBody, csrf |-> "n/a", pc |-> "none",
     ops |-> 0, stmts |-> <<>>, events |-> <<>>, local |-> NoLocal]

\* an answered request: the response, and what the request did before it
NoResponse ==
    [rid |-> 0, ep |-> NoEndpoint, user |-> "", header |-> <<>>, param |-> NoParam,
     body |-> NoBody, csrf |-> "n/a", status |-> 0, message |-> "", rows |-> {}, token |-> <<>>,
     ops |-> 0, stmts |-> <<>>, events |-> <<>>, local |-> NoLocal]

\* a request at the application-level middleware: its method, its Origin and Host
\* headers, what stopped it before csrfProtection if anything did, the status it was
\* answered with (0 when it went on to the routes) and the events logged for it
NoArrival ==
    [method |-> "", origin |-> [kind |-> "absent"], host |-> [kind |-> "absent"],
     early |-> "none", status |-> 0, routed |-> FALSE, events |-> <<>>]

\* a string | null of the client: null, or the string
Null == [isNull |-> TRUE, value |-> <<>>]

NoPromise == 0

\* a request the client sent: its method, its X-CSRF-Token header (empty when it has
\* none), when it was sent, and whether the token was taken from the cache while the
\* cache held the token of a fetch started before the last clearCsrfToken
NoSent == [method |-> "", header |-> <<>>, at |-> 0, stale |-> FALSE]

\* an array a caller holds: the array securityLog itself (alias) or an array of its own
NoCopy == [held |-> FALSE, alias |-> FALSE, items |-> <<>>, mutated |-> FALSE]

Init ==
    /\ now = StartTime
    /\ issued = PriorTokens
    /\ check = NoCheck
    /\ uniqueUserId \in BOOLEAN
    /\ userSubscriptions = {}
    /\ threatLogs = {}
    /\ protectionStatus = {}
    /\ nextId = 1
    /\ inflight = {}
    /\ lastDone = NoResponse
    /\ started = 0
    /\ arrival = NoArrival
    /\ csrfToken = Null
    /\ csrfTokenPromise = NoPromise
    /\ fetches = {}
    /\ fetchCount = 0
    /\ stale = FALSE
    /\ sent = NoSent
    /\ securityLog = <<>>
    /\ logged = 0
    /\ copy = NoCopy

\* Date.now() moves forward
Tick ==
    /\ ~check.called
    /\ \E t \in Instants : t > now /\ now' = t
    /\ check' = [check EXCEPT !.accepted =
                     {[a EXCEPT !.aged = TRUE] :
                          a \in {x \in @ : \E i \in issued :
                                               /\ i.token = x.token
                                               /\ now' - i.issuedAt <= TOKEN_MAX_AGE}}]
    /\ UNCHANGED issued
    /\ UNCHANGED <<apiVars, sideVars>>

\* a call of generateCsrfToken(sessionId)
Generate(sessionId) ==
    /\ ~check.called
    /\ Cardinality(issued) < MaxTokens
    /\ issued' = issued \cup {IssuedAt(sessionId, now)}
    /\ UNCHANGED <<now, check>>
    /\ UNCHANGED <<apiVars, sideVars>>

\* token strings a caller may hand to validateCsrfToken besides issued ones
ForgedTokens(dateNow) ==
    LET ts   == NumToString(dateNow)
        sA   == Str(<<"s", "A">>)
        good == HmacSha256Hex(SESSION_SECRET, CsrfData(sA, ts))
    IN { <<>>,                                                   \* empty
         Str(<<"a", "b", "c">>),                                 \* no colon
         ts \o <<Colon>> \o good \o <<Colon>> \o Str(<<"x">>),   \* three parts
         Str(<<"a", "b", "c">>) \o <<Colon>> \o good,            \* non-numeric timestamp
         <<Colon>> \o good,                                      \* empty timestamp
         ts \o <<Colon>>,                                        \* empty signature
         ts \o <<Colon>> \o Str(<<"d", "e", "a", "d">>),         \* short signature
         ts \o <<Colon>> \o good \o Str(<<"0">>),                \* long signature
         ts \o <<Colon>> \o HmacSha256Hex("guessed-secret", CsrfData(sA, ts)),
         ts \o Str(<<"x">>) \o <<Colon>> \o good }               \* trailing garbage in timestamp

\* the call that returned true before, per token and session; aged once the clock has
\* moved since, and forgotten once the token is older than TOKEN_MAX_AGE
FirstAccepted(token, sessionId) ==
    {a \in check.accepted : a.token = token /\ a.sessionId = sessionId}

\* a validateCsrfToken that accepts each token once
Validate_singleUse(token, sessionId) ==
    /\ ~check.called
    /\ check' = [called |-> TRUE, token |-> token, sessionId |-> sessionId, at |-> now,
                 result |-> IF FirstAccepted(token, sessionId) # {} THEN "false"
                            ELSE validateCsrfToken(token, sessionId, now),
                 accepted |-> check.accepted]
    /\ UNCHANGED <<now, issued>>
    /\ UNCHANGED <<apiVars, sideVars>>

\* a call of validateCsrfToken(token, sessionId)
Validate(token, sessionId) ==
    /\ ~check.called
    /\ check' = [called |-> TRUE, token |-> token, sessionId |-> sessionId, at |-> now,
                 result |-> validateCsrfToken(token, sessionId, now),
                 accepted |-> check.accepted]
    /\ UNCHANGED <<now, issued>>
    /\ UNCHANGED <<apiVars, sideVars>>

\* the call of validateCsrfToken is over; the next call starts after that
Returned ==
    /\ check.called
    /\ check' = [NoCheck EXCEPT !.accepted =
                     IF check.result = "true" /\ FirstAccepted(check.token, check.sessionId) = {}
                     THEN check.accepted \cup
                              {[token |-> check.token, sessionId |-> check.sessionId,
                                aged |-> FALSE]}
                     ELSE check.accepted]
    /\ UNCHANGED <<now, issued>>
    /\ UNCHANGED <<apiVars, sideVars>>

NextToken ==
    \/ Tick
    \/ Returned
    \/ \E s \in SessionIds : Generate(s)
    \/ \E s \in SessionIds : \E t \in {i.token : i \in issued} \cup ForgedTokens(now) :
           Validate(t, s)

SpecToken == Init /\ [][NextToken]_vars

(***************************************************************************)
(* Token service: properties                                               *)
(***************************************************************************)
\* the issuance records of the token just checked, for the session it was checked against
CheckedIssuances == {i \in issued : i.token = check.token /\ i.sessionId = check.sessionId}

\* C4: a correctly signed token is rejected once its age exceeds 3,600,000 ms and is
\* accepted while its age is at most 3,600,000 ms, exactly 3,600,000 included
C4_Expiry ==
    check.called =>
        \A i \in CheckedIssuances :
            /\ check.at - i.issuedAt > 3600000 => check.result = "false"
            /\ check.at - i.issuedAt <= 3600000 => check.result = "true"

C4_Witness ==
    /\ check.called
    /\ \E i \in CheckedIssuances : check.at - i.issuedAt = 3600000 /\ check.result = "true"
    /\ \E j \in issued : j.sessionId = check.sessionId /\ now - j.issuedAt > 3600000

\* C5: a token issued for session B is never accepted for a session A # B
C5_SessionBinding ==
    check.called =>
        \A i \in issued :
            (i.token = check.token /\ i.sessionId # check.sessionId) => check.result = "false"

C5_Witness ==
    /\ check.called
    /\ check.result = "false"
    /\ \E i \in issued : /\ i.token = check.token
                         /\ i.sessionId # check.sessionId
                         /\ check.at = i.issuedAt

\* C6: validateCsrfToken returns false for every token that is not a valid token of the
\* session, and never throws
C6_FailClosed ==
    (check.called /\ ~\E i \in CheckedIssuances : check.at - i.issuedAt <= 3600000)
        => check.result = "false"

(***************************************************************************)
(* HTTP API: requests, middleware                                          *)
(***************************************************************************)
Users == {"u1", "u2"}

\* the `sub` claim as a string of characters
UserIdString(u) == IF u = "u1" THEN Str(<<"u", "1">>) ELSE Str(<<"u", "2">>)

\* req.sessionID: u1's requests carry the identifier of u1's browser session, the
\* requests of u2 carry none
SessionOf(u) == IF u = "u1" THEN Str(<<"s", "A">>) ELSE <<>>

GET_CSRF_TOKEN == [method |-> "GET", path |-> "/api/csrf-token"]
GET_SUBSCRIPTION == [method |-> "GET", path |-> "/api/subscription"]
POST_SUBSCRIPTION == [method |-> "POST", path |-> "/api/subscription"]
PATCH_SUBSCRIPTION == [method |-> "PATCH", path |-> "/api/subscription"]
DELETE_SUBSCRIPTION == [method |-> "DELETE", path |-> "/api/subscription"]
GET_PROTECTION_STATUS == [method |-> "GET", path |-> "/api/protection-status"]
PATCH_PROTECTION_STATUS == [method |-> "PATCH", path |-> "/api/protection-status"]
GET_THREAT_LOGS == [method |-> "GET", path |-> "/api/threat-logs"]
POST_THREAT_LOGS == [method |-> "POST", path |-> "/api/threat-logs"]
PATCH_THREAT_LOG == [method |-> "PATCH", path |-> "/api/threat-logs/:id"]
GET_STATS == [method |-> "GET", path |-> "/api/stats"]

NewReq(ep, user, sessionID, header, param, body) ==
    [NoRequest EXCEPT !.rid = started + 1, !.ep = ep, !.user = user, !.sessionID = sessionID,
                      !.header = header, !.param = param, !.body = body, !.pc = "start"]

NoDetails == [none |-> TRUE]

SecurityEvent(req, type, details) ==
    [timestamp |-> now, type |-> type, userId |-> req.user, path |-> req.ep.path,
     method |-> req.ep.method, details |-> details]

\* req.sessionID || req.authenticatedUserId
SessionIdOf(req) ==
    IF req.sessionID # <<>> THEN req.sessionID
    ELSE IF req.user # "" THEN UserIdString(req.user) ELSE <<>>

Pass == [pass |-> TRUE, status |-> 0, message |-> "", events |-> <<>>, csrf |-> "n/a"]

Stop(status, message, events, csrf) ==
    [pass |-> FALSE, status |-> status, message |-> message, events |-> events, csrf |-> csrf]

\* a requireAuth that lets every request through
requireAuth_open(req) == Pass

requireAuth(req) ==
    IF req.user = ""
    THEN Stop(401, "Unauthorized", <<SecurityEvent(req, "unauthorized_access", NoDetails)>>, "n/a")
    ELSE Pass

\* an exception that leaves a middleware reaches the error handler registered last
secureErrorHandler(csrf) ==
    Stop(500, "An error occurred. Please try again later.", <<>>, csrf)

enforceCsrfValidation(req) ==
    LET sessionId == SessionIdOf(req) IN
    IF sessionId = <<>> THEN Stop(401, "Unauthorized", <<>>, "n/a")
    ELSE IF req.header = <<>>
    THEN Stop(403, "CSRF token required",
              <<SecurityEvent(req, "csrf_token_missing", NoDetails)>>, "missing")
    ELSE LET valid == validateCsrfToken(req.header, sessionId, now) IN
         IF valid = "throws" THEN secureErrorHandler("throws")
         ELSE IF valid = "false"
         THEN Stop(403, "Invalid CSRF token",
                   <<SecurityEvent(req, "csrf_token_invalid", NoDetails)>>, "invalid")
         ELSE [Pass EXCEPT !.csrf = "valid"]

\* express-rate-limit answers 429 once the caller's address exceeded 5 requests a minute;
\* whether it has is up to the traffic before this request
sensitiveRateLimiter(limited) ==
    IF limited THEN Stop(429, "Too many requests for this operation, please slow down", <<>>, "valid")
    ELSE [Pass EXCEPT !.csrf = "valid"]

\* a chain whose mutating routes lack enforceCsrfValidation
Chain_noCsrf(req, mutating) ==
    IF ~requireAuth(req).pass THEN requireAuth(req) ELSE Pass

\* the middleware in front of every handler: requireAuth, then enforceCsrfValidation on
\* the mutating routes
Chain(req, mutating) ==
    IF ~requireAuth(req).pass THEN requireAuth(req)
    ELSE IF ~mutating THEN Pass
    ELSE enforceCsrfValidation(req)

\* res.status(status).json(...): the request is answered.  events are the events the
\* handler passed to logSecurityEvent; they stay with the request that logged them
Answer(req, status, message, rows, events) ==
    /\ lastDone' = [rid |-> req.rid, ep |-> req.ep, user |-> req.user, header |-> req.header,
                    param |-> req.param, body |-> req.body, csrf |-> req.csrf, status |-> status, message |-> message, rows |-> rows,
                    token |-> <<>>, ops |-> req.ops, stmts |-> req.stmts,
                    events |-> req.events \o events,
                    local |-> req.local]
    /\ inflight' = {r \in inflight : r.rid # req.rid}

\* the handler has issued a store operation and is suspended until it completes
Await(req, pc, local, events) ==
    /\ inflight' = {r \in inflight : r.rid # req.rid}
                       \cup {[req EXCEPT !.pc = pc, !.local = local, !.events = @ \o events]}
    /\ lastDone' = NoResponse

\* a store operation of the request has completed
Resumed(req) == [req EXCEPT !.ops = @ + 1]

\* the statements the store is sent: what each does, on which table, and the columns its
\* where clause compares (an insert has no where clause)
StoreOperation ==
    [getSubscriptionPlan |->
         [kind |-> "select", table |-> "subscription_plans", where |-> {"id"}],
     getUserSubscription |->
         [kind |-> "select", table |-> "user_subscriptions", where |-> {"userId"}],
     createUserSubscription |->
         [kind |-> "insert", table |-> "user_subscriptions", where |-> {}],
     updateUserSubscription |->
         [kind |-> "update", table |-> "user_subscriptions", where |-> {"id"}],
     getThreatLogs |->
         [kind |-> "select", table |-> "threat_logs", where |-> {"userId"}],
     getThreatLogById |->
         [kind |-> "select", table |-> "threat_logs", where |-> {"id"}],
     getThreatLogByIdAndUser |->
         [kind |-> "select", table |-> "threat_logs", where |-> {"id", "userId"}],
     createThreatLog |->
         [kind |-> "insert", table |-> "threat_logs", where |-> {}],
     updateThreatLogStatus |->
         [kind |-> "update", table |-> "threat_logs", where |-> {"id", "userId"}],
     getProtectionStatus |->
         [kind |-> "select", table |-> "protection_status", where |-> {"userId"}],
     createProtectionStatus |->
         [kind |-> "insert", table |-> "protection_status", where |-> {}],
     updateProtectionStatus |->
         [kind |-> "update", table |-> "protection_status", where |-> {"userId"}],
     createUserDefaults_select |->
         [kind |-> "select", table |-> "protection_status", where |-> {"userId"}],
     createUserDefaults_insertStatus |->
         [kind |-> "insert", table |-> "protection_status", where |-> {}],
     createUserDefaults_insertThreats |->
         [kind |-> "insert", table |-> "threat_logs", where |-> {}]]

\* the store operation `operation` of the request has completed
Did(req, operation) == [Resumed(req) EXCEPT !.stmts = Append(@, operation)]

(***************************************************************************)
(* Store                                                                   *)
(***************************************************************************)
\* the identifiers of the plans seedDatabase inserts, each written as the plan's tier
SubscriptionPlanIds == {"basic", "pro", "enterprise"}

getSubscriptionPlan(id) == {p \in SubscriptionPlanIds : p = id}

\* the rows select ... where user_id = userId can deliver first
getUserSubscription(userId) == {s \in userSubscriptions : s.userId = userId}

\* insert into user_subscriptions: TRUE when the unique constraint rejects the row
SubscriptionConflict(userId) ==
    uniqueUserId /\ \E s \in userSubscriptions : s.userId = userId

createUserSubscription(subscription) ==
    [id |-> nextId, userId |-> subscription.userId, planId |-> subscription.planId,
     status |-> subscription.status, billingCycle |-> subscription.billingCycle,
     startDate |-> now, endDate |-> NULL, createdAt |-> now]

\* a key whose value is undefined is left out of the update
ABSENT == ""

\* set(data): every column that data has a value for is written
SetSubscription(s, data) ==
    [s EXCEPT !.status = IF data.status = ABSENT THEN @ ELSE data.status,
              !.billingCycle = IF data.billingCycle = ABSENT THEN @ ELSE data.billingCycle,
              !.userId = IF "userId" \in DOMAIN data THEN data.userId ELSE @]

\* delete ... where id = id returning * in place of the update
updateUserSubscription_delete(id, data) ==
    [table |-> {s \in userSubscriptions : s.id # id},
     returning |-> {SetSubscription(s, data) : s \in {x \in userSubscriptions : x.id = id}}]

\* update ... where id = id returning *: the new table and the rows it returned
updateUserSubscription(id, data) ==
    [table |-> {IF s.id = id THEN SetSubscription(s, data) ELSE s : s \in userSubscriptions},
     returning |-> {SetSubscription(s, data) : s \in {x \in userSubscriptions : x.id = id}}]

\* a select without the where clause
getThreatLogs_all(userId) == threatLogs

getThreatLogs(userId) == {l \in threatLogs : l.userId = userId}

getThreatLogByIdAndUser(id, userId) == {l \in threatLogs : l.id = id /\ l.userId = userId}

createThreatLog(log, id) ==
    [id |-> id, userId |-> log.userId, headType |-> log.headType,
     threatLevel |-> log.threatLevel, description |-> log.description,
     status |-> log.status, detectedAt |-> now, resolvedAt |-> NULL]

\* an update of the status column alone
SetThreatLogStatus_statusOnly(l, status) == [l EXCEPT !.status = status]

SetThreatLogStatus(l, status) ==
    [l EXCEPT !.status = status, !.resolvedAt = IF status = "resolved" THEN now ELSE NULL]

\* a where clause on the id alone
ThreatLogFilter_byId(id, userId) == {l \in threatLogs : l.id = id}

\* the rows the where clause of updateThreatLogStatus selects
ThreatLogFilter(id, userId) == {l \in threatLogs : l.id = id /\ l.userId = userId}

\* an update that writes every row with the id and returns the owner's rows only
updateThreatLogStatus_byId(id, userId, status) ==
    [table |-> {IF l.id = id THEN SetThreatLogStatus(l, status) ELSE l : l \in threatLogs},
     returning |-> {SetThreatLogStatus(l, status) : l \in ThreatLogFilter(id, userId)}]

updateThreatLogStatus(id, userId, status) ==
    [table |-> {IF l \in ThreatLogFilter(id, userId) THEN SetThreatLogStatus(l, status) ELSE l :
                   l \in threatLogs},
     returning |-> {SetThreatLogStatus(l, status) : l \in ThreatLogFilter(id, userId)}]

getProtectionStatus(userId) == {p \in protectionStatus : p.userId = userId}

createProtectionStatus(status) ==
    [id |-> nextId, userId |-> status.userId, deepfakeEnabled |-> status.deepfakeEnabled,
     surveillanceEnabled |-> status.surveillanceEnabled,
     containmentEnabled |-> status.containmentEnabled, lastScanAt |-> now,
     threatsBlockedToday |-> status.threatsBlockedToday, updatedAt |-> now]

DefaultProtectionStatus(userId) ==
    [userId |-> userId, deepfakeEnabled |-> TRUE, surveillanceEnabled |-> TRUE,
     containmentEnabled |-> TRUE, threatsBlockedToday |-> 0]

\* an update that writes the three toggles
SetProtection_everyHead(p, headType, enabled) ==
    [p EXCEPT !.deepfakeEnabled = enabled, !.surveillanceEnabled = enabled,
              !.containmentEnabled = enabled, !.updatedAt = now]

SetProtection(p, headType, enabled) ==
    [p EXCEPT !.deepfakeEnabled = IF headType = "deepfake" THEN enabled ELSE @,
              !.surveillanceEnabled = IF headType = "surveillance" THEN enabled ELSE @,
              !.containmentEnabled = IF headType = "containment" THEN enabled ELSE @,
              !.updatedAt = now]

updateProtectionStatus(userId, headType, enabled) ==
    [table |-> {IF p.userId = userId THEN SetProtection(p, headType, enabled) ELSE p :
                   p \in protectionStatus},
     returning |-> {SetProtection(p, headType, enabled) :
                       p \in {x \in protectionStatus : x.userId = userId}}]

\* the five demonstration rows of createUserDefaults; the description is abbreviated
\* to the number of the sample
sampleThreats(userId) ==
    << [userId |-> userId, headType |-> "deepfake", threatLevel |-> "medium",
        description |-> Str(<<"1">>), status |-> "blocked"],
       [userId |-> userId, headType |-> "surveillance", threatLevel |-> "low",
        description |-> Str(<<"2">>), status |-> "blocked"],
       [userId |-> userId, headType |-> "containment", threatLevel |-> "high",
        description |-> Str(<<"3">>), status |-> "resolved"],
       [userId |-> userId, headType |-> "deepfake", threatLevel |-> "low",
        description |-> Str(<<"4">>), status |-> "blocked"],
       [userId |-> userId, headType |-> "surveillance", threatLevel |-> "medium",
        description |-> Str(<<"5">>), status |-> "blocked"] >>

\* sanitizeString: the seven characters it escapes become their HTML entities (the double
\* quote, the backslash and the backtick are written by name)
Entity(c) ==
    IF c = Ch("<") THEN Str(<<"&", "l", "t", ";">>)
    ELSE IF c = Ch(">") THEN Str(<<"&", "g", "t", ";">>)
    ELSE IF c = Ch("dquote") THEN Str(<<"&", "q", "u", "o", "t", ";">>)
    ELSE IF c = Ch("'") THEN Str(<<"&", "#", "x", "2", "7", ";">>)
    ELSE IF c = Ch("/") THEN Str(<<"&", "#", "x", "2", "F", ";">>)
    ELSE IF c = Ch("backslash") THEN Str(<<"&", "#", "x", "5", "C", ";">>)
    ELSE IF c = Ch("backtick") THEN Str(<<"&", "#", "x", "6", "0", ";">>)
    ELSE <<c>>

RECURSIVE sanitizeString(_)
sanitizeString(input) ==
    IF input = <<>> THEN <<>> ELSE Entity(Head(input)) \o sanitizeString(Tail(input))

(***************************************************************************)
(* Request inputs                                                          *)
(***************************************************************************)
\* "" is a request whose identity has no string `sub` claim
Callers == IF started < MaxRequests /\ lastDone = NoResponse THEN Users \cup {""} ELSE {}

SessionChoices(u) == IF u = "" THEN {<<>>} ELSE {SessionOf(u)}

\* X-CSRF-Token values: none, a token a client was given, or a made-up one
HeaderChoices ==
    {<<>>} \cup {i.token : i \in issued}
           \cup {Str(<<"a", "b", "c">>),
                 NumToString(now) \o <<Colon>> \o Str(<<"d", "e", "a", "d">>)}

\* the last three: an unknown billing cycle, no billing cycle, a plan identifier with a
\* character outside the pattern
CreateSubscriptionBodies ==
    {[planId |-> "basic", billingCycle |-> "monthly"],
     [planId |-> "pro", billingCycle |-> "yearly"],
     [planId |-> "ghost", billingCycle |-> "monthly"],
     [planId |-> "pro", billingCycle |-> "weekly"],
     [planId |-> "pro", billingCycle |-> ABSENT],
     [planId |-> "pro;", billingCycle |-> "monthly"]}

\* the first body carries a key the schema does not know
UpdateSubscriptionBodies ==
    {[status |-> "expired", billingCycle |-> ABSENT, userId |-> "u2"],
     [status |-> ABSENT, billingCycle |-> ABSENT],
     [status |-> "paused", billingCycle |-> ABSENT]}

UpdateProtectionBodies ==
    {[headType |-> "deepfake", enabled |-> FALSE],
     [headType |-> "containment", enabled |-> FALSE],
     [headType |-> "firewall", enabled |-> TRUE]}

\* the second body carries a key the schema does not know
CreateThreatLogBodies ==
    {[headType |-> "deepfake", threatLevel |-> "low",
      description |-> Str(<<"<", "b">>), status |-> ABSENT],
     [headType |-> "containment", threatLevel |-> "critical",
      description |-> Str(<<"o", "k">>), status |-> "resolved", userId |-> "u2"],
     [headType |-> "deepfake", threatLevel |-> "low",
      description |-> <<>>, status |-> ABSENT]}

\* the second body carries a key the schema does not know
UpdateThreatLogBodies ==
    {[status |-> "resolved"], [status |-> "resolved", resolvedAt |-> 1],
     [status |-> "detected"], [status |-> "deleted"]}

\* :id is a string that is no UUID, the identifier the store will hand out next (no
\* row has it), or the identifier of a threat log: the first one of each owner in each
\* status
ParamChoices ==
    {[given |-> TRUE, uuid |-> FALSE, id |-> 0], [given |-> TRUE, uuid |-> TRUE, id |-> nextId]}
        \cup {[given |-> TRUE, uuid |-> TRUE, id |-> l.id] :
                 l \in {k \in threatLogs :
                           \A m \in threatLogs :
                               m.userId = k.userId /\ m.status = k.status => m.id >= k.id}}

(***************************************************************************)
(* Validation schemas                                                      *)
(***************************************************************************)
HeadTypes == {"deepfake", "surveillance", "containment"}
ThreatLevels == {"low", "medium", "high", "critical"}
ThreatStatuses == {"detected", "blocked", "resolved"}
SubscriptionStatuses == {"active", "cancelled", "expired"}
BillingCycles == {"monthly", "yearly"}

\* /^[a-zA-Z0-9-_]+$/ over the plan identifiers of CreateSubscriptionBodies
PlanIdFormat == {"basic", "pro", "enterprise", "ghost"}

updateProtectionSchema(body) == body.headType \in HeadTypes /\ body.enabled \in BOOLEAN

createSubscriptionSchema(body) ==
    body.planId \in PlanIdFormat /\ body.billingCycle \in BillingCycles

updateSubscriptionSchema(body) ==
    /\ body.status \in SubscriptionStatuses \cup {ABSENT}
    /\ body.billingCycle \in BillingCycles \cup {ABSENT}

createThreatLogSchema(body) ==
    /\ body.headType \in HeadTypes
    /\ body.threatLevel \in ThreatLevels
    /\ Len(body.description) >= 1 /\ Len(body.description) <= 1000
    /\ body.status \in ThreatStatuses \cup {ABSENT}

\* a schema that takes every body
updateThreatLogSchema_any(body) == TRUE

updateThreatLogSchema(body) == body.status \in ThreatStatuses

idParamSchema(param) == param.uuid

\* validation.data of a schema without passthrough that keeps every key of the body
updateSubscriptionData_passthrough(body) == body

\* validation.data: a z.object drops the keys it does not declare
updateSubscriptionData(body) == [status |-> body.status, billingCycle |-> body.billingCycle]

createThreatLogData(body) ==
    [headType |-> body.headType, threatLevel |-> body.threatLevel,
     description |-> sanitizeString(body.description), status |-> body.status]

(***************************************************************************)
(* Handlers.  A handler runs without interruption from one await to the    *)
(* next, and the store serialises the operations it is sent.  A step is    *)
(* one store operation together with the handler code that leads to it     *)
(* and follows it up to the next operation; the first step of a request    *)
(* starts with the middleware.                                             *)
(***************************************************************************)
Received == started < MaxRequests /\ started' = started + 1

\* the response written by the last step leaves the server; the server takes its next
\* step after that
Sent ==
    /\ lastDone # NoResponse
    /\ lastDone' = NoResponse
    /\ UNCHANGED <<sideVars, now, issued, check, uniqueUserId, storeVars, inflight, started>>

\* the handlers whose store operation can complete next
Suspended == IF lastDone = NoResponse THEN inflight ELSE {}

(***************************************************************************)
(* GET /api/csrf-token                                                     *)
(***************************************************************************)
GetCsrfToken(user, sessionID) ==
    LET req   == NewReq(GET_CSRF_TOKEN, user, sessionID, <<>>, NoParam, NoBody)
        gate  == Chain(req, FALSE)
        entry == IssuedAt(SessionIdOf(req), now)
    IN /\ Received
       /\ IF ~gate.pass
          THEN Answer(req, gate.status, gate.message, {}, gate.events) /\ issued' = issued
          ELSE /\ Cardinality(issued \cup {entry}) <= MaxTokens
               /\ issued' = issued \cup {entry}
               /\ lastDone' = [NoResponse EXCEPT !.rid = req.rid, !.ep = req.ep,
                                                 !.user = req.user, !.status = 200,
                                                 !.token = entry.token]
               /\ inflight' = inflight
       /\ UNCHANGED <<sideVars, now, check, uniqueUserId, storeVars>>

(***************************************************************************)
(* Subscriptions                                                           *)
(***************************************************************************)
GetSubscription(user, sessionID) ==
    LET req  == NewReq(GET_SUBSCRIPTION, user, sessionID, <<>>, NoParam, NoBody)
        gate == Chain(req, FALSE)
    IN /\ Received
       /\ IF ~gate.pass THEN Answer(req, gate.status, gate.message, {}, gate.events)
          ELSE LET found == getUserSubscription(user) IN
               IF found = {} THEN Answer(Did(req, "getUserSubscription"), 200, "", {}, <<>>)
               ELSE \E subscription \in found :
                        Answer(Did(req, "getUserSubscription"), 200, "", {subscription}, <<>>)
       /\ UNCHANGED <<sideVars, now, issued, check, uniqueUserId, storeVars>>

\* up to the completion of getSubscriptionPlan
PostSubscription(user, sessionID, header) ==
    LET req0 == NewReq(POST_SUBSCRIPTION, user, sessionID, header, NoParam, NoBody)
        gate == Chain(req0, TRUE)
        req  == [req0 EXCEPT !.csrf = gate.csrf]
    IN /\ Received
       /\ IF ~gate.pass THEN Answer(req, gate.status, gate.message, {}, gate.events)
          ELSE \E limited \in BOOLEAN :
               LET limiter == sensitiveRateLimiter(limited) IN
               IF ~limiter.pass THEN Answer(req, limiter.status, limiter.message, {}, <<>>)
               ELSE \E body \in CreateSubscriptionBodies :
                    IF ~createSubscriptionSchema(body)
                    THEN Answer([req EXCEPT !.body = body], 400, "Invalid request body", {},
                                <<SecurityEvent(req, "invalid_input", [errors |-> TRUE])>>)
                    ELSE IF getSubscriptionPlan(body.planId) = {}
                    THEN Answer(Did([req EXCEPT !.body = body], "getSubscriptionPlan"),
                                400, "Invalid subscription plan", {}, <<>>)
                    ELSE Await(Did([req EXCEPT !.body = body], "getSubscriptionPlan"),
                               "createUserSubscription", NoLocal, <<>>)
       /\ UNCHANGED <<sideVars, now, issued, check, uniqueUserId, storeVars>>

PostSubscription_createUserSubscription(r) ==
    /\ r.ep = POST_SUBSCRIPTION /\ r.pc = "createUserSubscription"
    /\ IF SubscriptionConflict(r.user)
       THEN /\ Answer(Did(r, "createUserSubscription"), 409, "User already has a subscription", {}, <<>>)
            /\ UNCHANGED storeVars
       ELSE LET subscription ==
                    createUserSubscription([userId |-> r.user, planId |-> r.body.planId,
                                            billingCycle |-> r.body.billingCycle,
                                            status |-> "active"])
            IN /\ userSubscriptions' = userSubscriptions \cup {subscription}
               /\ nextId' = nextId + 1
               /\ UNCHANGED <<threatLogs, protectionStatus>>
               /\ Answer(Did(r, "createUserSubscription"), 201, "", {subscription},
                         <<SecurityEvent(r, "subscription_created",
                                         [planId |-> r.body.planId,
                                          billingCycle |-> r.body.billingCycle])>>)
    /\ UNCHANGED <<sideVars, now, issued, check, uniqueUserId, started>>

\* drizzle refuses an update without any value to set
NoValuesToSet(data) == data.status = ABSENT /\ data.billingCycle = ABSENT

\* the lines both PATCH and DELETE /api/subscription run once getUserSubscription has
\* completed; data is what the handler is going to write
AfterGetUserSubscription(req, data, idorDetails, failure) ==
    LET found == getUserSubscription(req.user) IN
    IF found = {} THEN Answer(Did(req, "getUserSubscription"), 404, "No subscription found", {}, <<>>)
    ELSE \E subscription \in found :
         IF subscription.userId # req.user
         THEN Answer(Did(req, "getUserSubscription"), 403, "Access denied", {},
                     <<SecurityEvent(req, "idor_attempt",
                                     IF idorDetails
                                     THEN [targetSubscriptionId |-> subscription.id]
                                     ELSE NoDetails)>>)
         ELSE IF NoValuesToSet(data) THEN Answer(Did(req, "getUserSubscription"), 500, failure, {}, <<>>)
         ELSE Await(Did(req, "getUserSubscription"), "updateUserSubscription",
                    [subscriptionId |-> subscription.id], <<>>)

\* up to the completion of getUserSubscription
PatchSubscription(user, sessionID, header) ==
    LET req0 == NewReq(PATCH_SUBSCRIPTION, user, sessionID, header, NoParam, NoBody)
        gate == Chain(req0, TRUE)
        req  == [req0 EXCEPT !.csrf = gate.csrf]
    IN /\ Received
       /\ IF ~gate.pass THEN Answer(req, gate.status, gate.message, {}, gate.events)
          ELSE \E limited \in BOOLEAN :
               LET limiter == sensitiveRateLimiter(limited) IN
               IF ~limiter.pass THEN Answer(req, limiter.status, limiter.message, {}, <<>>)
               ELSE \E body \in UpdateSubscriptionBodies :
                    IF ~updateSubscriptionSchema(body)
                    THEN Answer([req EXCEPT !.body = body], 400, "Invalid request body",
                                {}, <<>>)
                    ELSE AfterGetUserSubscription([req EXCEPT !.body = body],
                                                  updateSubscriptionData(body), TRUE,
                                                  "Failed to update subscription")
       /\ UNCHANGED <<sideVars, now, issued, check, uniqueUserId, storeVars>>

PatchSubscription_updateUserSubscription(r) ==
    /\ r.ep = PATCH_SUBSCRIPTION /\ r.pc = "updateUserSubscription"
    /\ LET result == updateUserSubscription(r.local.subscriptionId,
                                            updateSubscriptionData(r.body)) IN
       /\ userSubscriptions' = result.table
       /\ Answer(Did(r, "updateUserSubscription"), 200, "", result.returning,
                 <<SecurityEvent(r, "subscription_updated", NoDetails)>>)
    /\ UNCHANGED <<sideVars, now, issued, check, uniqueUserId, threatLogs, protectionStatus, nextId,
                   started>>

Cancelled == [status |-> "cancelled", billingCycle |-> ABSENT]

\* up to the completion of getUserSubscription
DeleteSubscription(user, sessionID, header) ==
    LET req0 == NewReq(DELETE_SUBSCRIPTION, user, sessionID, header, NoParam, NoBody)
        gate == Chain(req0, TRUE)
        req  == [req0 EXCEPT !.csrf = gate.csrf]
    IN /\ Received
       /\ IF ~gate.pass THEN Answer(req, gate.status, gate.message, {}, gate.events)
          ELSE \E limited \in BOOLEAN :
               LET limiter == sensitiveRateLimiter(limited) IN
               IF ~limiter.pass THEN Answer(req, limiter.status, limiter.message, {}, <<>>)
               ELSE AfterGetUserSubscription(req, Cancelled, FALSE,
                                             "Failed to cancel subscription")
       /\ UNCHANGED <<sideVars, now, issued, check, uniqueUserId, storeVars>>

DeleteSubscription_updateUserSubscription(r) ==
    /\ r.ep = DELETE_SUBSCRIPTION /\ r.pc = "updateUserSubscription"
    /\ LET result == updateUserSubscription(r.local.subscriptionId, Cancelled) IN
       /\ userSubscriptions' = result.table
       /\ Answer(Did(r, "updateUserSubscription"), 200, "", result.returning,
                 <<SecurityEvent(r, "subscription_cancelled", NoDetails)>>)
    /\ UNCHANGED <<sideVars, now, issued, check, uniqueUserId, threatLogs, protectionStatus, nextId,
                   started>>

(***************************************************************************)
(* Protection status                                                       *)
(***************************************************************************)
\* up to the completion of the select of createUserDefaults; an error of the store in
\* createUserDefaults is caught and only printed
GetProtectionStatus(user, sessionID) ==
    LET req  == NewReq(GET_PROTECTION_STATUS, user, sessionID, <<>>, NoParam, NoBody)
        gate == Chain(req, FALSE)
    IN /\ Received
       /\ IF ~gate.pass THEN Answer(req, gate.status, gate.message, {}, gate.events)
          ELSE \E storeError \in BOOLEAN :
               IF ~storeError /\ getProtectionStatus(user) = {}
               THEN Await(Did(req, "createUserDefaults_select"), "createUserDefaults.insertStatus", NoLocal, <<>>)
               ELSE Await(Did(req, "createUserDefaults_select"), "getProtectionStatus", NoLocal, <<>>)
       /\ UNCHANGED <<sideVars, now, issued, check, uniqueUserId, storeVars>>

createUserDefaults_insertStatus(r) ==
    /\ r.ep = GET_PROTECTION_STATUS /\ r.pc = "createUserDefaults.insertStatus"
    /\ protectionStatus' =
           protectionStatus \cup {createProtectionStatus(DefaultProtectionStatus(r.user))}
    /\ nextId' = nextId + 1
    /\ Await(Did(r, "createUserDefaults_insertStatus"), "createUserDefaults.insertThreats", NoLocal, <<>>)
    /\ UNCHANGED <<sideVars, now, issued, check, uniqueUserId, userSubscriptions, threatLogs, started>>

createUserDefaults_insertThreats(r) ==
    /\ r.ep = GET_PROTECTION_STATUS /\ r.pc = "createUserDefaults.insertThreats"
    /\ LET samples == sampleThreats(r.user) IN
       /\ threatLogs' = threatLogs \cup
              {createThreatLog(samples[k], nextId + k - 1) : k \in 1..Len(samples)}
       /\ nextId' = nextId + Len(samples)
    /\ Await(Did(r, "createUserDefaults_insertThreats"), "getProtectionStatus", NoLocal, <<>>)
    /\ UNCHANGED <<sideVars, now, issued, check, uniqueUserId, userSubscriptions, protectionStatus,
                   started>>

GetProtectionStatus_getProtectionStatus(r) ==
    /\ r.ep = GET_PROTECTION_STATUS /\ r.pc = "getProtectionStatus"
    /\ LET found == getProtectionStatus(r.user) IN
       IF found = {} THEN Await(Did(r, "getProtectionStatus"), "createProtectionStatus", NoLocal, <<>>)
       ELSE \E status \in found : Answer(Did(r, "getProtectionStatus"), 200, "", {status}, <<>>)
    /\ UNCHANGED <<sideVars, now, issued, check, uniqueUserId, storeVars, started>>

GetProtectionStatus_createProtectionStatus(r) ==
    /\ r.ep = GET_PROTECTION_STATUS /\ r.pc = "createProtectionStatus"
    /\ LET status == createProtectionStatus(DefaultProtectionStatus(r.user)) IN
       /\ protectionStatus' = protectionStatus \cup {status}
       /\ nextId' = nextId + 1
       /\ Answer(Did(r, "createProtectionStatus"), 200, "", {status}, <<>>)
    /\ UNCHANGED <<sideVars, now, issued, check, uniqueUserId, userSubscriptions, threatLogs, started>>

PatchProtectionStatus(user, sessionID, header) ==
    LET req0 == NewReq(PATCH_PROTECTION_STATUS, user, sessionID, header, NoParam, NoBody)
        gate == Chain(req0, TRUE)
        req  == [req0 EXCEPT !.csrf = gate.csrf]
    IN /\ Received
       /\ IF ~gate.pass
          THEN Answer(req, gate.status, gate.message, {}, gate.events)
               /\ UNCHANGED protectionStatus
          ELSE \E body \in UpdateProtectionBodies :
               IF ~updateProtectionSchema(body)
               THEN Answer([req EXCEPT !.body = body], 400, "Invalid request body", {}, <<>>)
                    /\ UNCHANGED protectionStatus
               ELSE LET result == updateProtectionStatus(user, body.headType, body.enabled)
                        r      == Did([req EXCEPT !.body = body], "updateProtectionStatus")
                    IN /\ protectionStatus' = result.table
                       /\ IF result.returning = {}
                          THEN Answer(r, 404, "Protection status not found", {}, <<>>)
                          ELSE \E status \in result.returning :
                                   Answer(r, 200, "", {status}, <<>>)
       /\ UNCHANGED <<sideVars, now, issued, check, uniqueUserId, userSubscriptions, threatLogs, nextId>>

(***************************************************************************)
(* Threat logs                                                             *)
(***************************************************************************)
GetThreatLogs(user, sessionID) ==
    LET req  == NewReq(GET_THREAT_LOGS, user, sessionID, <<>>, NoParam, NoBody)
        gate == Chain(req, FALSE)
    IN /\ Received
       /\ IF ~gate.pass THEN Answer(req, gate.status, gate.message, {}, gate.events)
          ELSE Answer(Did(req, "getThreatLogs"), 200, "", getThreatLogs(user), <<>>)
       /\ UNCHANGED <<sideVars, now, issued, check, uniqueUserId, storeVars>>

PostThreatLogs(user, sessionID, header) ==
    LET req0 == NewReq(POST_THREAT_LOGS, user, sessionID, header, NoParam, NoBody)
        gate == Chain(req0, TRUE)
        req  == [req0 EXCEPT !.csrf = gate.csrf]
    IN /\ Received
       /\ IF ~gate.pass
          THEN Answer(req, gate.status, gate.message, {}, gate.events)
               /\ UNCHANGED <<threatLogs, nextId>>
          ELSE \E body \in CreateThreatLogBodies :
               IF ~createThreatLogSchema(body)
               THEN Answer([req EXCEPT !.body = body], 400, "Invalid request body", {}, <<>>)
                    /\ UNCHANGED <<threatLogs, nextId>>
               ELSE LET data == createThreatLogData(body)
                        \* { userId, ...validation.data, status: ... }
                        log == createThreatLog(
                                   [userId |-> IF "userId" \in DOMAIN data THEN data.userId
                                               ELSE user,
                                    headType |-> data.headType,
                                    threatLevel |-> data.threatLevel,
                                    description |-> data.description,
                                    status |-> IF data.status = ABSENT THEN "detected"
                                               ELSE data.status],
                                   nextId)
                    IN /\ threatLogs' = threatLogs \cup {log}
                       /\ nextId' = nextId + 1
                       /\ Answer(Did([req EXCEPT !.body = body], "createThreatLog"), 201, "", {log}, <<>>)
       /\ UNCHANGED <<sideVars, now, issued, check, uniqueUserId, userSubscriptions, protectionStatus>>

\* local.existed records whether a row with the requested id was in the table, whoever
\* owns it, and local.id the id requested
PatchThreatLog(user, sessionID, header) ==
    LET req0 == NewReq(PATCH_THREAT_LOG, user, sessionID, header, NoParam, NoBody)
        gate == Chain(req0, TRUE)
        req  == [req0 EXCEPT !.csrf = gate.csrf]
    IN /\ Received
       /\ IF ~gate.pass
          THEN Answer(req, gate.status, gate.message, {}, gate.events)
               /\ UNCHANGED threatLogs
          ELSE \E param \in ParamChoices :
               IF ~idParamSchema(param)
               THEN Answer([req EXCEPT !.param = param], 400, "Invalid ID format", {},
                           <<SecurityEvent(req, "invalid_id_parameter", NoDetails)>>)
                    /\ UNCHANGED threatLogs
               ELSE \E body \in UpdateThreatLogBodies :
                    IF ~updateThreatLogSchema(body)
                    THEN Answer([req EXCEPT !.param = param, !.body = body],
                                400, "Invalid request body", {}, <<>>)
                         /\ UNCHANGED threatLogs
                    ELSE LET result  == updateThreatLogStatus(param.id, user, body.status)
                             existed == \E l \in threatLogs : l.id = param.id
                             r == [Did(req, "updateThreatLogStatus") EXCEPT
                                      !.param = param, !.body = body,
                                      !.local = [id |-> param.id, existed |-> existed,
                                                 status |-> body.status]]
                         IN /\ threatLogs' = result.table
                            /\ IF result.returning = {}
                               THEN Answer(r, 404, "Threat log not found", {},
                                           <<SecurityEvent(r, "resource_not_found_or_idor",
                                                           [targetId |-> param.id])>>)
                               ELSE \E log \in result.returning :
                                        Answer(r, 200, "", {log}, <<>>)
       /\ UNCHANGED <<sideVars, now, issued, check, uniqueUserId, userSubscriptions, protectionStatus,
                      nextId>>

(***************************************************************************)
(* GET /api/stats                                                          *)
(***************************************************************************)
DAY == 24 * 60 * 60 * 1000

\* today.setHours(0, 0, 0, 0), with the server clock in UTC
StartOfToday == now - (now % DAY)

\* up to the completion of getThreatLogs
GetStats(user, sessionID) ==
    LET req  == NewReq(GET_STATS, user, sessionID, <<>>, NoParam, NoBody)
        gate == Chain(req, FALSE)
    IN /\ Received
       /\ IF ~gate.pass THEN Answer(req, gate.status, gate.message, {}, gate.events)
          ELSE Await(Did(req, "getThreatLogs"), "getProtectionStatus", [logs |-> getThreatLogs(user)], <<>>)
       /\ UNCHANGED <<sideVars, now, issued, check, uniqueUserId, storeVars>>

\* the rows read are kept in rows; the body sent holds only the counts
GetStats_getProtectionStatus(r) ==
    /\ r.ep = GET_STATS /\ r.pc = "getProtectionStatus"
    /\ LET logs   == r.local.logs
           status == getProtectionStatus(r.user)
           stats  == [totalThreatsBlocked |->
                          Cardinality({l \in logs : l.status \in {"blocked", "resolved"}}),
                      threatsToday |->
                          Cardinality({l \in logs : l.detectedAt >= StartOfToday}),
                      securityScore |-> 98]
       IN Answer([Did(r, "getProtectionStatus") EXCEPT !.local = stats], 200, "", logs \cup status, <<>>)
    /\ UNCHANGED <<sideVars, now, issued, check, uniqueUserId, storeVars, started>>

(***************************************************************************)
(* Specification of the API                                                *)
(***************************************************************************)
Next ==
    \/ \E u \in Callers : \E sid \in SessionChoices(u) : GetCsrfToken(u, sid)
    \/ \E u \in Callers : \E sid \in SessionChoices(u) : GetSubscription(u, sid)
    \/ \E u \in Callers : \E sid \in SessionChoices(u) : \E h \in HeaderChoices :
           PostSubscription(u, sid, h)
    \/ \E u \in Callers : \E sid \in SessionChoices(u) : \E h \in HeaderChoices :
           PatchSubscription(u, sid, h)
    \/ \E u \in Callers : \E sid \in SessionChoices(u) : \E h \in HeaderChoices :
           DeleteSubscription(u, sid, h)
    \/ \E u \in Callers : \E sid \in SessionChoices(u) : GetProtectionStatus(u, sid)
    \/ \E u \in Callers : \E sid \in SessionChoices(u) : \E h \in HeaderChoices :
           PatchProtectionStatus(u, sid, h)
    \/ \E u \in Callers : \E sid \in SessionChoices(u) : GetThreatLogs(u, sid)
    \/ \E u \in Callers : \E sid \in SessionChoices(u) : \E h \in HeaderChoices :
           PostThreatLogs(u, sid, h)
    \/ \E u \in Callers : \E sid \in SessionChoices(u) : \E h \in HeaderChoices :
           PatchThreatLog(u, sid, h)
    \/ \E u \in Callers : \E sid \in SessionChoices(u) : GetStats(u, sid)
    \/ \E r \in Suspended : PostSubscription_createUserSubscription(r)
    \/ \E r \in Suspended : PatchSubscription_updateUserSubscription(r)
    \/ \E r \in Suspended : DeleteSubscription_updateUserSubscription(r)
    \/ \E r \in Suspended : createUserDefaults_insertStatus(r)
    \/ \E r \in Suspended : createUserDefaults_insertThreats(r)
    \/ \E r \in Suspended : GetProtectionStatus_getProtectionStatus(r)
    \/ \E r \in Suspended : GetProtectionStatus_createProtectionStatus(r)
    \/ \E r \in Suspended : GetStats_getProtectionStatus(r)
    \/ Sent

Spec == Init /\ [][Next]_vars

(***************************************************************************)
(* HTTP API: properties                                                    *)
(***************************************************************************)
MutatingEndpoints ==
    {POST_SUBSCRIPTION, PATCH_SUBSCRIPTION, DELETE_SUBSCRIPTION, PATCH_PROTECTION_STATUS,
     POST_THREAT_LOGS, PATCH_THREAT_LOG}

Answered == lastDone # NoResponse

\* the session identifier the requests of user u are checked against
SessionKey(u) == SessionIdOf([NoRequest EXCEPT !.user = u, !.sessionID = SessionOf(u)])

\* header h is a token that was issued to the session of u no more than an hour ago
HeaderValid(h, u) ==
    \E i \in issued : /\ i.token = h
                      /\ i.sessionId = SessionKey(u)
                      /\ now - i.issuedAt <= 3600000

\* the rows of the three owned tables
OwnedRows(subs, logs, stats) ==
    {[table |-> "user_subscriptions", row |-> x] : x \in subs}
        \cup {[table |-> "threat_logs", row |-> x] : x \in logs}
        \cup {[table |-> "protection_status", row |-> x] : x \in stats}

\* C1: a step changes (inserts, rewrites) only rows whose userId is the user of the
\* request that takes the step; PATCH /api/threat-logs/:id with the id of another
\* user's log answers 404 and leaves the table as it was
C1_Step ==
    LET before == OwnedRows(userSubscriptions, threatLogs, protectionStatus)
        after  == OwnedRows(userSubscriptions', threatLogs', protectionStatus')
        actors == {r.user : r \in inflight' \ inflight}
                      \cup (IF lastDone' # NoResponse THEN {lastDone'.user} ELSE {})
    IN /\ \A x \in (before \ after) \cup (after \ before) : x.row.userId \in actors
       /\ ( /\ lastDone' # NoResponse
            /\ lastDone'.ep = PATCH_THREAT_LOG
            /\ lastDone'.ops = 1
            /\ \E l \in threatLogs : l.id = lastDone'.local.id /\ l.userId # lastDone'.user )
          => lastDone'.status = 404 /\ threatLogs' = threatLogs

C1_WriteIsolation == [][C1_Step]_vars

C1_Witness ==
    /\ Answered
    /\ lastDone.ep = PATCH_THREAT_LOG
    /\ lastDone.status = 404
    /\ lastDone.ops = 1
    /\ \E l \in threatLogs : /\ l.id = lastDone.local.id
                             /\ l.userId # lastDone.user
                             /\ l.status # lastDone.local.status

\* C2: an owner never has more than one user_subscriptions row, and a POST
\* /api/subscription answered 201 leaves exactly the row it returned
C2_OneSubscriptionPerOwner ==
    /\ \A u \in Users : Cardinality(getUserSubscription(u)) <= 1
    /\ (Answered /\ lastDone.ep = POST_SUBSCRIPTION /\ lastDone.status = 201)
           => getUserSubscription(lastDone.user) = lastDone.rows

\* C3: a token GET /api/csrf-token issued at this instant is accepted by
\* enforceCsrfValidation on a mutating request of the session it was issued to
C3_RoundTrip ==
    ( /\ Answered
      /\ lastDone.ep \in MutatingEndpoints
      /\ \E i \in issued : /\ i.token = lastDone.header
                           /\ i.sessionId = SessionKey(lastDone.user)
                           /\ i.issuedAt = now )
        => lastDone.csrf = "valid" /\ lastDone.status \notin {401, 403}

C3_Witness ==
    /\ Answered
    /\ lastDone.ep \in MutatingEndpoints
    /\ lastDone.csrf = "valid"
    /\ lastDone.status \in {200, 201}
    /\ \E i \in issued \ PriorTokens : /\ i.token = lastDone.header
                                       /\ i.sessionId = SessionKey(lastDone.user)
                                       /\ i.issuedAt = now

\* C7: a mutating request without a token, or with a token that is not valid for its
\* session, is answered without a store operation and with the store as it was, and is
\* never found waiting for the store
C7_Step ==
    /\ ( /\ lastDone' # NoResponse
         /\ lastDone'.ep \in MutatingEndpoints
         /\ ~HeaderValid(lastDone'.header, lastDone'.user) )
       => /\ lastDone'.ops = 0
          /\ lastDone'.rows = {}
          /\ lastDone'.status \notin {200, 201}
          /\ storeVars' = storeVars
    /\ \A r \in inflight' : r.ep \in MutatingEndpoints => HeaderValid(r.header, r.user)

C7_RejectedBeforeHandler == [][C7_Step]_vars

C7_Witness ==
    /\ Answered
    /\ lastDone.ep \in MutatingEndpoints
    /\ lastDone.user \in Users
    /\ lastDone.header # <<>>
    /\ ~HeaderValid(lastDone.header, lastDone.user)
    /\ lastDone.ops = 0
    /\ threatLogs # {}

\* C8: an authenticated mutating request whose X-CSRF-Token header is missing or is not
\* a valid token of its session is answered 403
C8_Always403 ==
    ( /\ Answered
      /\ lastDone.ep \in MutatingEndpoints
      /\ lastDone.user \in Users
      /\ ~HeaderValid(lastDone.header, lastDone.user) )
        => lastDone.status = 403

\* C9: every row returned to a request, and every row a handler holds, has the userId
\* of the request; getThreatLogByIdAndUser finds nothing under the id of another
\* user's log
C9_ReadIsolation ==
    /\ Answered => \A row \in lastDone.rows : row.userId = lastDone.user
    /\ \A r \in inflight : "logs" \in DOMAIN r.local =>
           \A row \in r.local.logs : row.userId = r.user
    /\ \A l \in threatLogs : \A u \in Users :
           u # l.userId => getThreatLogByIdAndUser(l.id, u) = {}

C9_Witness ==
    /\ Answered
    /\ lastDone.ep \in {GET_THREAT_LOGS, GET_PROTECTION_STATUS, GET_SUBSCRIPTION}
    /\ lastDone.rows # {}
    /\ \E l \in threatLogs : /\ l.userId # lastDone.user
                             /\ getThreatLogByIdAndUser(l.id, lastDone.user) = {}
                             /\ getThreatLogByIdAndUser(l.id, l.userId) = {l}

\* C10: PATCH /api/threat-logs/:id for an id that is no log of the requester gives the
\* same response and the same security event whether a log with that id exists
\* (local.existed) or not: 404, the same body, one resource_not_found_or_idor event
\* holding nothing but the request's own values
C10_Indistinguishable ==
    ( /\ Answered
      /\ lastDone.ep = PATCH_THREAT_LOG
      /\ lastDone.ops = 1
      /\ ~\E l \in threatLogs : l.id = lastDone.local.id /\ l.userId = lastDone.user )
        => /\ lastDone.status = 404
           /\ lastDone.message = "Threat log not found"
           /\ lastDone.rows = {}
           /\ lastDone.events =
                  << [timestamp |-> now, type |-> "resource_not_found_or_idor",
                      userId |-> lastDone.user, path |-> PATCH_THREAT_LOG.path,
                      method |-> "PATCH", details |-> [targetId |-> lastDone.local.id]] >>

C10_Witness ==
    /\ Answered
    /\ lastDone.ep = PATCH_THREAT_LOG
    /\ lastDone.ops = 1
    /\ lastDone.status = 404
    /\ lastDone.local.existed
    /\ \E l \in threatLogs : l.id = lastDone.local.id /\ l.userId # lastDone.user

\* the tables whose rows have an owner
OwnedTables == {"user_subscriptions", "threat_logs", "protection_status"}

\* C11: every select and every update a request sends for an owned table compares the
\* userId column in its where clause
C11_OwnerInEveryFilter ==
    Answered =>
        \A k \in 1..Len(lastDone.stmts) :
            LET statement == StoreOperation[lastDone.stmts[k]] IN
            (statement.table \in OwnedTables /\ statement.kind \in {"select", "update"})
                => "userId" \in statement.where

\* C12: there is at most one protection_status row per userId in every reachable
\* state
C12_SingletonProtectionStatus ==
    \A u \in Users : Cardinality(getProtectionStatus(u)) <= 1

\* C13: after updateThreatLogStatus matched a row, the row has the status requested;
\* its resolvedAt is the server's clock reading when that status is "resolved" and null
\* when it is "detected" or "blocked", whatever the request body carried
C13_ResolvedAtStamp ==
    (Answered /\ lastDone.ep = PATCH_THREAT_LOG /\ lastDone.status = 200)
        => /\ lastDone.rows # {}
           /\ lastDone.rows \subseteq threatLogs
           /\ \A row \in lastDone.rows :
                  /\ row.id = lastDone.local.id
                  /\ row.status = lastDone.local.status
                  /\ row.status = "resolved" => row.resolvedAt = now /\ row.resolvedAt # NULL
                  /\ row.status \in {"detected", "blocked"} => row.resolvedAt = NULL

C13_Witness ==
    /\ Answered
    /\ lastDone.ep = PATCH_THREAT_LOG
    /\ lastDone.status = 200
    /\ \E row \in lastDone.rows \cap threatLogs :
           /\ row.status = "resolved"
           /\ row.resolvedAt = now
           /\ "resolvedAt" \in DOMAIN lastDone.body
           /\ lastDone.body.resolvedAt # row.resolvedAt

\* C14: a request without a string `sub` claim is answered 401 in the step it arrives
\* in; it sends the store nothing, no token is issued for it, the tables stay as they
\* were, and it is never found waiting for the store
C14_Step ==
    /\ (lastDone' # NoResponse /\ lastDone'.user \notin Users)
           => /\ lastDone'.status = 401
              /\ lastDone'.ops = 0
              /\ lastDone'.stmts = <<>>
              /\ lastDone'.token = <<>>
              /\ lastDone'.rows = {}
              /\ issued' = issued
              /\ storeVars' = storeVars
    /\ \A r \in inflight' : r.user \in Users

C14_UnauthenticatedBeforeStore == [][C14_Step]_vars

C14_Witness ==
    /\ Answered
    /\ lastDone.user \notin Users
    /\ lastDone.status = 401
    /\ lastDone.ops = 0
    /\ lastDone.ep \in {GET_CSRF_TOKEN, GET_THREAT_LOGS, PATCH_THREAT_LOG}
    /\ threatLogs # {}

\* C15: when the insert of a POST /api/subscription runs for an owner who already has a
\* subscription row, the answer is 409 (not 404, not 201) and the subscriptions table
\* is left exactly as it was
C15_Step ==
    \A r \in inflight :
        (/\ r.ep = POST_SUBSCRIPTION
         /\ r.pc = "createUserSubscription"
         /\ r \notin inflight'
         /\ \E s \in userSubscriptions : s.userId = r.user)
            => /\ lastDone'.rid = r.rid
               /\ lastDone'.status = 409
               /\ userSubscriptions' = userSubscriptions

C15_ConflictOnSecondSubscription == [][C15_Step]_vars

\* C16: no step removes a row of the subscriptions, threat-log or protection-status
\* tables (the stored ids only grow), and a DELETE /api/subscription answered 200 leaves
\* the caller's row, the one that was there before, in the table with status "cancelled"
RowIds(table) == {row.id : row \in table}

C16_Step ==
    /\ RowIds(userSubscriptions) \subseteq RowIds(userSubscriptions')
    /\ RowIds(threatLogs) \subseteq RowIds(threatLogs')
    /\ RowIds(protectionStatus) \subseteq RowIds(protectionStatus')
    /\ (/\ lastDone' # NoResponse
        /\ lastDone'.ep = DELETE_SUBSCRIPTION
        /\ lastDone'.status = 200)
           => \E s \in userSubscriptions' :
                  /\ s.userId = lastDone'.user
                  /\ s.id = lastDone'.local.subscriptionId
                  /\ s.id \in RowIds(userSubscriptions)
                  /\ s.status = "cancelled"
                  /\ Cardinality(userSubscriptions') = Cardinality(userSubscriptions)

C16_SoftDelete == [][C16_Step]_vars

C16_Witness ==
    /\ Answered
    /\ lastDone.ep = DELETE_SUBSCRIPTION
    /\ lastDone.status = 200
    /\ \E s \in userSubscriptions :
           s.userId = lastDone.user /\ s.status = "cancelled" /\ s \in lastDone.rows

\* C17: a token that validateCsrfToken accepted for a session is accepted again for that
\* session at every later call made no later than 3,600,000 ms after its issuance,
\* whatever was issued or validated in between; and a step that issues or validates a
\* token changes no table, no request and no response
C17_Step ==
    /\ (/\ ~check.called
        /\ check'.called
        /\ FirstAccepted(check'.token, check'.sessionId) # {}
        /\ \E i \in issued : /\ i.token = check'.token
                             /\ i.sessionId = check'.sessionId
                             /\ check'.at <= i.issuedAt + 3600000)
           => check'.result = "true"
    /\ (issued' # issued \/ check' # check)
           => /\ storeVars' = storeVars
              /\ inflight' = inflight
              /\ uniqueUserId' = uniqueUserId

C17_StatelessNotSingleUse == [][C17_Step]_vars

C17_Witness ==
    /\ check.called
    /\ check.result = "true"
    /\ \E a \in FirstAccepted(check.token, check.sessionId) : a.aged
    /\ \E b \in check.accepted : b.token # check.token
    /\ issued # PriorTokens

\* C18: a mutating request that came through authentication, the token check and the
\* rate limiter with an id parameter that is no UUID, or with a body that has a value
\* outside an enumeration, lacks a required field or has an ill-formed planId, is
\* answered 400 without having sent the store any read or write, and the tables are
\* as they were
IllFormedBody(ep, body) ==
    \/ ep = POST_SUBSCRIPTION
         /\ (body.billingCycle \in {"weekly", ""} \/ body.planId = "pro;")
    \/ ep = PATCH_SUBSCRIPTION /\ body.status = "paused"
    \/ ep = PATCH_PROTECTION_STATUS /\ body.headType = "firewall"
    \/ ep = POST_THREAT_LOGS /\ body.description = <<>>
    \/ ep = PATCH_THREAT_LOG /\ body.status = "deleted"

IllFormed(response) ==
    /\ response.ep \in MutatingEndpoints
    /\ \/ response.param.given /\ ~response.param.uuid
       \/ response.body # NoBody /\ IllFormedBody(response.ep, response.body)

C18_Step ==
    (lastDone' # NoResponse /\ IllFormed(lastDone'))
        => /\ lastDone'.status = 400
           /\ lastDone'.ops = 0
           /\ lastDone'.stmts = <<>>
           /\ lastDone'.rows = {}
           /\ storeVars' = storeVars

C18_RejectedBeforeStore == [][C18_Step]_vars

C18_Witness ==
    /\ Answered
    /\ lastDone.ep = PATCH_THREAT_LOG
    /\ lastDone.csrf = "valid"
    /\ lastDone.body # NoBody
    /\ lastDone.body.status = "deleted"
    /\ \E l \in threatLogs : l.id = lastDone.param.id /\ l.userId = lastDone.user
    /\ lastDone.status = 400
    /\ lastDone.ops = 0

\* C19: a mutating request that succeeded has sent the store exactly one operation on
\* the tables whose rows have an owner, and not a select followed by an update
C19_OneOwnedOperation ==
    (Answered /\ lastDone.ep \in MutatingEndpoints /\ lastDone.status \in {200, 201})
        => Cardinality({k \in 1..Len(lastDone.stmts) :
                            StoreOperation[lastDone.stmts[k]].table \in OwnedTables}) = 1

\* why the token h is rejected for user u: it is absent, it has not the form
\* timestamp:signature, it was issued to the session of u more than an hour ago, or its
\* signature is not the one of that session
RejectionCause(h, u) ==
    IF h = <<>> THEN "absent"
    ELSE IF Len(SplitColon(h, <<>>)) # 2 THEN "malformed"
    ELSE IF \E i \in issued : /\ i.token = h
                              /\ i.sessionId = SessionKey(u)
                              /\ now - i.issuedAt > 3600000
    THEN "expired"
    ELSE "mismatch"

\* C20: the security event logged for a rejected token has a type of its own per cause:
\* a request rejected for another cause than the one just answered is logged with
\* another event type
C20_DistinctRejectionEvents ==
    (Answered /\ lastDone.ep \in MutatingEndpoints /\ lastDone.csrf \in {"missing", "invalid"})
        => /\ Len(lastDone.events) = 1
           /\ \A h \in HeaderChoices :
                  LET other == enforceCsrfValidation(
                                   [NoRequest EXCEPT !.ep = lastDone.ep,
                                                     !.user = lastDone.user,
                                                     !.sessionID = SessionOf(lastDone.user),
                                                     !.header = h])
                  IN (/\ ~other.pass
                      /\ other.events # <<>>
                      /\ RejectionCause(h, lastDone.user)
                             # RejectionCause(lastDone.header, lastDone.user))
                         => other.events[1].type # lastDone.events[1].type

(***************************************************************************)
(* Application-level middleware in front of /api                           *)
(***************************************************************************)
Methods == {"GET", "HEAD", "OPTIONS", "POST", "PATCH", "DELETE"}

safeMethods == {"GET", "HEAD", "OPTIONS"}

\* String.prototype.toLowerCase over the host names of OriginChoices
ToLowerCase(name) == IF name = "App.Example" THEN "app.example" ELSE name

DefaultPort(scheme) == IF scheme = "https" THEN "443" ELSE IF scheme = "http" THEN "80" ELSE ""

\* the text name[:port]
HostText(name, port) == [name |-> name, port |-> port]

\* new URL(origin).host: throws when the text is no URL; the host name comes out in
\* lower case and the port is left out when it is the default port of the scheme
UrlHost(origin) ==
    IF origin.kind # "url" THEN [throws |-> TRUE, host |-> HostText("", "")]
    ELSE [throws |-> FALSE,
          host |-> HostText(ToLowerCase(origin.name),
                            IF origin.port = DefaultPort(origin.scheme) THEN ""
                            ELSE origin.port)]

\* Origin header values: none, the text "null", and URLs
OriginChoices ==
    {[kind |-> "absent"], [kind |-> "text", text |-> "null"],
     [kind |-> "url", scheme |-> "https", name |-> "app.example", port |-> ""],
     [kind |-> "url", scheme |-> "https", name |-> "App.Example", port |-> "443"],
     [kind |-> "url", scheme |-> "https", name |-> "evil.example", port |-> ""],
     [kind |-> "url", scheme |-> "https", name |-> "app.example", port |-> "8443"]}

\* Host header values: none (HTTP/1.0), and the text the client put there
HostChoices ==
    {[kind |-> "absent"],
     [kind |-> "text", name |-> "app.example", port |-> ""],
     [kind |-> "text", name |-> "app.example", port |-> "443"],
     [kind |-> "text", name |-> "evil.example", port |-> ""]}

\* express-rate-limit answers 429 once the caller's address exceeded 100 requests in 15
\* minutes; whether it has is up to the traffic before this request
apiRateLimiter(limited) ==
    IF limited THEN Stop(429, "Too many requests, please try again later", <<>>, "n/a")
    ELSE Pass

\* badRedirect: the query carries a redirect, returnTo or next that isValidRedirectUrl
\* refuses
validateRedirect(badRedirect) ==
    IF badRedirect THEN Stop(400, "Invalid redirect URL", <<>>, "n/a") ELSE Pass

\* a middleware that checks nothing
csrfProtection_absent(req) == Pass

csrfProtection(req) ==
    IF req.method \in safeMethods THEN Pass
    ELSE IF req.origin.kind = "absent" THEN Pass
    ELSE LET originUrl == UrlHost(req.origin) IN
         IF originUrl.throws THEN Stop(403, "Forbidden", <<>>, "n/a")
         ELSE IF req.host.kind # "absent"
                 /\ originUrl.host # HostText(req.host.name, req.host.port)
         THEN Stop(403, "Forbidden",
                   <<[timestamp |-> now, type |-> "csrf_origin_mismatch",
                      path |-> "/api", method |-> req.method,
                      details |-> [origin |-> req.origin, host |-> req.host]]>>, "n/a")
         ELSE Pass

\* a request to a path under /api goes through apiRateLimiter, validateRedirect and
\* csrfProtection, in this order, before the body is parsed and the routes are tried
ApiRequest(method, origin, host, limited, badRedirect) ==
    LET req == [NoArrival EXCEPT !.method = method, !.origin = origin, !.host = host]
        first == apiRateLimiter(limited)
        second == validateRedirect(badRedirect)
        third == csrfProtection(req)
    IN /\ arrival' =
              IF ~first.pass THEN [req EXCEPT !.early = "apiRateLimiter", !.status = first.status]
              ELSE IF ~second.pass
              THEN [req EXCEPT !.early = "validateRedirect", !.status = second.status]
              ELSE IF ~third.pass
              THEN [req EXCEPT !.status = third.status, !.events = third.events]
              ELSE [req EXCEPT !.routed = TRUE]
       /\ UNCHANGED <<now, issued, check, apiVars, clientVars, logVars>>

NextOrigin ==
    \E method \in Methods : \E origin \in OriginChoices : \E host \in HostChoices :
        \E limited \in BOOLEAN : \E badRedirect \in BOOLEAN :
            ApiRequest(method, origin, host, limited, badRedirect)

SpecOrigin == Init /\ [][NextOrigin]_vars

\* the Origin header of the arrival names another host than its Host header: another
\* name, letter case apart, or another port, a missing port being the default one
CrossOrigin ==
    /\ arrival.origin.kind = "url"
    /\ arrival.host.kind = "text"
    /\ LET port(p) == IF p = "" THEN "443" ELSE p
           name(n) == IF n = "App.Example" THEN "app.example" ELSE n
       IN \/ name(arrival.origin.name) # name(arrival.host.name)
          \/ port(arrival.origin.port) # port(arrival.host.port)

\* C21: a request under /api with a method other than GET, HEAD and OPTIONS whose
\* Origin names another host than its Host header, or is no URL, never reaches the
\* routes, and csrfProtection answers it 403 when no earlier middleware answered it; a
\* request with a safe method is let through by csrfProtection whatever its Origin
C21_OriginValidation ==
    /\ (/\ arrival.method \in {"POST", "PATCH", "DELETE"}
        /\ (CrossOrigin \/ arrival.origin.kind = "text"))
           => /\ ~arrival.routed
              /\ arrival.early = "none" => arrival.status = 403
    /\ (arrival.method \in {"GET", "HEAD", "OPTIONS"} /\ arrival.early = "none")
           => arrival.routed

C21_Witness ==
    /\ arrival.method = "DELETE"
    /\ arrival.origin.kind = "url"
    /\ arrival.origin.name = "evil.example"
    /\ arrival.host.kind = "text"
    /\ arrival.host.name = "app.example"
    /\ arrival.status = 403
    /\ arrival.events # <<>>

\* C23: in every state a threat-log row has a resolvedAt if and only if its status is
\* "resolved"
C23_ResolvedAtIffResolved ==
    \A l \in threatLogs : (l.resolvedAt # NULL) <=> (l.status = "resolved")

\* C24: a step that inserts or updates a row of user_subscriptions, threat_logs or
\* protection_status is taken by a request to a mutating endpoint whose token was
\* validated; a step of a GET request leaves the three tables as they were
C24_Step ==
    (<<userSubscriptions, threatLogs, protectionStatus>>'
         # <<userSubscriptions, threatLogs, protectionStatus>>)
        => IF lastDone' # NoResponse
           THEN lastDone'.ep \in MutatingEndpoints /\ lastDone'.csrf = "valid"
           ELSE \A r \in inflight' \ inflight :
                    r.ep \in MutatingEndpoints /\ r.csrf = "valid"

C24_WritesBehindToken == [][C24_Step]_vars

(***************************************************************************)
(* Client: the token cache of apiRequest.  The page runs one task at a      *)
(* time: a call runs up to its first await, and the callbacks of a settled  *)
(* fetch run together with the calls that waited for it.                    *)
(***************************************************************************)
MaxFetches == 3
MaxWaiting == 2

String(value) == [isNull |-> FALSE, value |-> value]

\* if (x): null and the empty string are falsy
Truthy(x) == ~x.isNull /\ x.value # <<>>

\* the session of the browser; it stays the same
ClientSession == Str(<<"s", "A">>)

\* fetch(url, {method, headers, ...}) of apiRequest: the header is there if (token)
Send(method, token, fromStale) ==
    sent' = [method |-> method, header |-> token, at |-> now, stale |-> fromStale]

\* the fetch that getCsrfToken waits for
Awaited == {f \in fetches : f.id = csrfTokenPromise}

\* apiRequest(method, url, data) up to its first await
ApiCall(method) ==
    /\ IF method \in {"GET", "HEAD", "OPTIONS"}
       THEN /\ Send(method, <<>>, FALSE)
            /\ UNCHANGED <<csrfToken, csrfTokenPromise, fetches, fetchCount, stale>>
       ELSE IF Truthy(csrfToken)
       THEN /\ Send(method, csrfToken.value, stale)
            /\ UNCHANGED <<csrfToken, csrfTokenPromise, fetches, fetchCount, stale>>
       ELSE IF csrfTokenPromise = NoPromise
       THEN /\ fetchCount < MaxFetches
            /\ fetchCount' = fetchCount + 1
            /\ csrfTokenPromise' = fetchCount + 1
            /\ fetches' = fetches \cup {[id |-> fetchCount + 1, cleared |-> FALSE,
                                         method |-> method, waiting |-> 1]}
            /\ UNCHANGED <<csrfToken, stale, sent>>
       ELSE /\ \E f \in Awaited :
                   /\ f.waiting < MaxWaiting
                   /\ fetches' = (fetches \ {f}) \cup {[f EXCEPT !.waiting = @ + 1]}
            /\ UNCHANGED <<csrfToken, csrfTokenPromise, fetchCount, stale, sent>>
    /\ UNCHANGED <<now, issued, check, apiVars, arrival, logVars>>

\* what a request to /api/csrf-token comes back with: a token of the session issued
\* now, a response that is not ok (fetchCsrfToken returns ""), or no response at all
\* (the promise of fetch is rejected)
FetchOutcomes == {"ok", "not ok", "rejected"}

\* the then and catch callbacks of getCsrfToken: the new cache, the new
\* csrfTokenPromise, and the token the waiting calls get
Settled(f, outcome) ==
    LET token == IF outcome = "ok" THEN generateCsrfToken(ClientSession, now) ELSE <<>>
    IN IF outcome = "rejected"
       THEN [csrfToken |-> csrfToken, csrfTokenPromise |-> NoPromise, token |-> <<>>,
             stale |-> stale]
       ELSE [csrfToken |-> String(token), csrfTokenPromise |-> NoPromise, token |-> token,
             stale |-> f.cleared /\ token # <<>>]

\* the fetch of fetchCsrfToken settles; the calls of apiRequest that waited for it go on
\* and send their requests
FetchSettles(f, outcome) ==
    LET after == Settled(f, outcome) IN
    /\ csrfToken' = after.csrfToken
    /\ csrfTokenPromise' = after.csrfTokenPromise
    /\ stale' = after.stale
    /\ fetches' = fetches \ {f}
    /\ Send(f.method, after.token, FALSE)
    /\ UNCHANGED <<now, issued, check, apiVars, arrival, logVars, fetchCount>>

clearCsrfToken ==
    /\ csrfToken' = Null
    /\ csrfTokenPromise' = NoPromise
    /\ stale' = FALSE
    /\ fetches' = {[f EXCEPT !.cleared = TRUE] : f \in fetches}
    /\ UNCHANGED <<now, issued, check, apiVars, arrival, logVars, fetchCount, sent>>

NextClient ==
    \/ Tick
    \/ \E method \in {"GET", "POST", "PATCH"} : ApiCall(method)
    \/ \E f \in fetches : \E outcome \in FetchOutcomes : FetchSettles(f, outcome)
    \/ clearCsrfToken

SpecClient == Init /\ [][NextClient]_vars

\* C25: the cache never holds a token obtained from a fetch that was started before the
\* last clearCsrfToken, and apiRequest never takes such a token from the cache
C25_ClearedMeansCleared == ~stale /\ ~sent.stale

\* C26: the X-CSRF-Token of a mutating request is, when the request is sent, a token
\* validateCsrfToken accepts for the session of the client
C26_SentTokenAccepted ==
    (sent.method \in {"POST", "PATCH"} /\ sent.header # <<>>)
        => validateCsrfToken(sent.header, ClientSession, sent.at) = "true"

\* C27: while no token is cached, at most one of the requests to /api/csrf-token that
\* the getCsrfToken calls since the last clearCsrfToken started is under way
C27_OneFetchInFlight ==
    ~Truthy(csrfToken) => Cardinality({f \in fetches : ~f.cleared}) <= 1

\* the user of the request that takes the step
Acting ==
    IF lastDone' # NoResponse THEN {lastDone'.user}
    ELSE {r.user : r \in inflight' \ inflight}

\* C28: a row that is in a table before and after a step has the same userId after it,
\* and a row that a step inserts has the userId of the authenticated user of the
\* request that takes the step, whatever the body of the request carries
C28_Step ==
    \A pair \in {<<userSubscriptions, userSubscriptions'>>, <<threatLogs, threatLogs'>>,
                 <<protectionStatus, protectionStatus'>>} :
        \A after \in pair[2] :
            IF \E before \in pair[1] : before.id = after.id
            THEN \A before \in pair[1] : before.id = after.id => before.userId = after.userId
            ELSE after.userId \in Acting /\ after.userId \in Users

C28_OwnershipImmutable == [][C28_Step]_vars

C28_Witness ==
    /\ Answered
    /\ lastDone.ep = PATCH_SUBSCRIPTION
    /\ lastDone.status = 200
    /\ "userId" \in DOMAIN lastDone.body
    /\ lastDone.body.userId # lastDone.user
    /\ \E s \in lastDone.rows : s \in userSubscriptions /\ s.userId = lastDone.user

\* C29: a PATCH /api/protection-status that reached the store is answered 404 exactly
\* when the caller has no protection-status row, and then no table changes; otherwise
\* each row of the caller has the toggle named by headType set to enabled and updatedAt
\* set to the clock, its other columns are as before, and the rows of the other owners
\* and the other tables are as before
C29_Step ==
    (/\ lastDone' # NoResponse
     /\ lastDone'.ep = PATCH_PROTECTION_STATUS
     /\ lastDone'.stmts # <<>>)
        => LET h == lastDone'.body.headType
               e == lastDone'.body.enabled
               caller == lastDone'.user
           IN /\ <<userSubscriptions, threatLogs, nextId>>'
                     = <<userSubscriptions, threatLogs, nextId>>
              /\ {p.id : p \in protectionStatus'} = {p.id : p \in protectionStatus}
              /\ lastDone'.status = IF \E p \in protectionStatus : p.userId = caller
                                    THEN 200 ELSE 404
              /\ lastDone'.status = 404 => protectionStatus' = protectionStatus
              /\ \A p \in protectionStatus : \A q \in protectionStatus' :
                     p.id = q.id =>
                         IF p.userId # caller THEN q = p
                         ELSE /\ q.userId = p.userId
                              /\ q.deepfakeEnabled
                                     = IF h = "deepfake" THEN e ELSE p.deepfakeEnabled
                              /\ q.surveillanceEnabled
                                     = IF h = "surveillance" THEN e ELSE p.surveillanceEnabled
                              /\ q.containmentEnabled
                                     = IF h = "containment" THEN e ELSE p.containmentEnabled
                              /\ q.threatsBlockedToday = p.threatsBlockedToday
                              /\ q.lastScanAt = p.lastScanAt
                              /\ q.updatedAt = now

C29_ToggleFrame == [][C29_Step]_vars

C29_Witness ==
    /\ Answered
    /\ lastDone.ep = PATCH_PROTECTION_STATUS
    /\ lastDone.status = 200
    /\ lastDone.body.headType = "containment"
    /\ \E p \in protectionStatus :
           /\ p.userId = lastDone.user
           /\ p \in lastDone.rows
           /\ ~p.containmentEnabled
           /\ p.deepfakeEnabled
           /\ p.surveillanceEnabled

(***************************************************************************)
(* Security audit log                                                      *)
(***************************************************************************)
MaxLogged == 1002

MAX_LOG_SIZE == 1000

\* if (securityLog.length > MAX_LOG_SIZE) securityLog.shift()
Rotated(log) == IF Len(log) > MAX_LOG_SIZE THEN Tail(log) ELSE log

\* events differ in n, the number of the call that logged them
logSecurityEvent(type) ==
    /\ logged < MaxLogged
    /\ ~copy.held
    /\ logged' = logged + 1
    /\ securityLog' = Rotated(Append(securityLog, [timestamp |-> now, type |-> type,
                                                   n |-> logged + 1]))
    /\ UNCHANGED <<now, issued, check, apiVars, arrival, clientVars, copy>>

\* a getSecurityLog that returns the array itself
SecurityLogCopy_alias == [held |-> TRUE, alias |-> TRUE, items |-> securityLog, mutated |-> FALSE]

\* [...securityLog]
SecurityLogCopy == [held |-> TRUE, alias |-> FALSE, items |-> securityLog, mutated |-> FALSE]

getSecurityLog ==
    /\ ~copy.held
    /\ copy' = SecurityLogCopy
    /\ UNCHANGED <<now, issued, check, apiVars, arrival, clientVars, securityLog, logged>>

\* what a caller may do to an array: push, shift, pop, assign an element, empty it
ArrayMutations == {"push", "shift", "pop", "assign", "clear"}

Mutated(array, mutation) ==
    LET foreign == [timestamp |-> 0, type |-> "forged", n |-> 0] IN
    IF mutation = "push" THEN Append(array, foreign)
    ELSE IF mutation = "clear" \/ array = <<>> THEN <<>>
    ELSE IF mutation = "shift" THEN Tail(array)
    ELSE IF mutation = "pop" THEN SubSeq(array, 1, Len(array) - 1)
    ELSE [array EXCEPT ![1] = foreign]

\* the caller changes the array it was given; when that array is securityLog itself the
\* log changes with it
CallerMutates(mutation) ==
    /\ copy.held
    /\ ~copy.mutated
    /\ copy' = [copy EXCEPT !.items = Mutated(@, mutation), !.mutated = TRUE]
    /\ securityLog' = IF copy.alias THEN Mutated(securityLog, mutation) ELSE securityLog
    /\ UNCHANGED <<now, issued, check, apiVars, arrival, clientVars, logged>>

\* the caller lets go of the array
CallerDone ==
    /\ copy.held
    /\ copy' = NoCopy
    /\ UNCHANGED <<now, issued, check, apiVars, arrival, clientVars, securityLog, logged>>

NextLog ==
    \/ logSecurityEvent("csrf_token_invalid")
    \/ getSecurityLog
    \/ \E mutation \in ArrayMutations : CallerMutates(mutation)
    \/ CallerDone

SpecLog == Init /\ [][NextLog]_vars

\* C30: the log holds at most 1000 events: the events of the last 1000 calls of
\* logSecurityEvent (of all calls while there were fewer), oldest first; the array that
\* getSecurityLog returns has the events of the log, and changing that array leaves the
\* log as it is
C30_BoundedFifo ==
    LET size == IF logged < 1000 THEN logged ELSE 1000 IN
    /\ Len(securityLog) = size
    /\ \A i \in 1..size : securityLog[i].n = logged - size + i
    /\ (copy.held /\ ~copy.mutated) => copy.items = securityLog

C30_Witness ==
    /\ logged > 1001
    /\ Len(securityLog) = 1000
    /\ securityLog[1].n = logged - 999
    /\ copy.held
    /\ copy.mutated
    /\ copy.items # securityLog

====
